---- MODULE Spec2Model ----
(***************************************************************************)
(* A model of src/iga_user_sync.py: the configuration (IGAConfig), the     *)
(* transport client (IGAUserRetriever._make_request), the record           *)
(* normalizer (_parse_user_data), the risk scorer (_calculate_risk_score), *)
(* the retrieval orchestrator (retrieve_all_users), the export and the     *)
(* query helpers of one retriever instance.                                *)
(*                                                                         *)
(* The HTTP server and the wall clock are the environment: each GET        *)
(* attempt nondeterministically gets a page, a 429 or a failure, and time  *)
(* passes by Tick, by NewDay and by every sleep.  Durations passed to      *)
(* time.sleep are logged in milliseconds.                                  *)
(*                                                                         *)
(* Spec explores the pages of a run, SpecTransport the attempts of a       *)
(* request, SpecCalendar adds the days that pass between runs.             *)
(* SpecNormalize explores the normalizer and the scorer over every         *)
(* combination of the fields they read, SpecQueries the export and the     *)
(* query helpers, SpecConfig the construction in any environment.          *)
(* SpecDataFormat models test_data_format of src/test_connection.py, the   *)
(* connection test's verdict on a sample record.                             *)
(***************************************************************************)
EXTENDS Integers, Sequences, FiniteSets, TLC

(* ---------------- program constants (IGAConfig.__init__) --------------- *)
MAX_RETRIES == 3
RETRY_DELAY == 2
PAGE_SIZE == 100
RATE_LIMIT_DELAY_MS == 500

(* ---------------- bounds of the model ---------------------------------- *)
MaxRuns == 2
\* the server sends at most MaxPages pages holding at most MaxRecords records in
\* all, and at most MaxFailures attempts get something else than a page
MaxPages == 2
MaxRecords == 2
MaxFailures == 3
MaxDay == 1

VARIABLES
    pc,            \* position of the instance: "new", "failed", "idle", "loop", "request",
                   \* "process", "finalize"
    sync_stats,    \* self.sync_stats
    users,         \* self.users
    next_cursor,   \* local of retrieve_all_users
    page_count,    \* local of retrieve_all_users
    params,        \* query parameters of the page request in progress
    attempt,       \* loop variable of _make_request
    response_data, \* value returned by _make_request, until the page is processed
    pending,       \* exception propagating out of the try block, "none" if none
    result,        \* how the last retrieve_all_users call ended, "none" before
    now,           \* the wall clock, in abstract ticks
    today,         \* the calendar day of the wall clock
    runs,          \* number of retrieve_all_users calls started
    gets,          \* number of HTTP GETs issued by self.session (environment side)
    received,      \* number of raw records the server has sent (environment side)
    pages,         \* number of 200 responses the server has sent (environment side)
    call,          \* history of the current/last _make_request call
    served,        \* per page returned in this run: raw record count and extracted cursor
    environ,       \* os.environ: IGA_API_URL and IGA_API_KEY
    config,        \* self.config
    session,       \* self.session
    directory,     \* the accounts of the server's directory, when it serves them itself
    returned,      \* value returned by the last export / query-helper call
    normalized_on, \* for each entity of self.users, the day it was normalized
    sample_user,   \* test_data_format: the sample record the connection test got
    results        \* test_data_format: its results dictionary

vars == <<pc, sync_stats, users, next_cursor, page_count, params, attempt,
          response_data, pending, result, now, today, runs, gets, received,
          pages, call, served, environ, config, session, directory, returned,
          normalized_on, sample_user, results>>

(* ---------------- values ------------------------------------------------ *)
NoTime == -1
NoCursor == "<None>"
Cursors == {NoCursor, "", "c1"}
AltCursors == {NoCursor, "c2"}
Truthy(c) == c /= NoCursor /\ c /= ""

Ms(seconds) == seconds * 1000

(* Retry-After header of a 429 response: absent, an integer, or a          *)
(* non-integer value such as an HTTP-date.                                 *)
RetryAfterHeaders ==
    { [k |-> "absent", v |-> 0], [k |-> "int", v |-> 0], [k |-> "int", v |-> 5],
      [k |-> "int", v |-> -1], [k |-> "date", v |-> 0] }
NoHeader == [k |-> "absent", v |-> 0]

(* ---------------- strings ----------------------------------------------- *)
(* The characters of the group names and keywords the model uses, so that   *)
(* str.lower() and the substring test `keyword in g.lower()` are computed.  *)
Chars(s) ==
    CASE s = "Org-Admins" -> <<"O","r","g","-","A","d","m","i","n","s">> []
         s = "staff" -> <<"s","t","a","f","f">> []
         s = "sudoers" -> <<"s","u","d","o","e","r","s">> []
         s = "Root" -> <<"R","o","o","t">> []
         s = "admin" -> <<"a","d","m","i","n">> []
         s = "administrator" -> <<"a","d","m","i","n","i","s","t","r","a","t","o","r">> []
         s = "root" -> <<"r","o","o","t">> []
         s = "superuser" -> <<"s","u","p","e","r","u","s","e","r">> []
         s = "privileged" -> <<"p","r","i","v","i","l","e","g","e","d">> []
         s = "sudo" -> <<"s","u","d","o">>

UpperAlpha == <<"A","B","C","D","E","F","G","H","I","J","K","L","M","N","O","P","Q","R","S","T","U","V","W","X","Y","Z">>
LowerAlpha == <<"a","b","c","d","e","f","g","h","i","j","k","l","m","n","o","p","q","r","s","t","u","v","w","x","y","z">>
LowerChar(c) ==
    IF \E i \in 1..26 : UpperAlpha[i] = c
    THEN LowerAlpha[CHOOSE i \in 1..26 : UpperAlpha[i] = c]
    ELSE c
Lower(cs) == [i \in DOMAIN cs |-> LowerChar(cs[i])]
Contains(hay, needle) ==
    \E i \in 0..(Len(hay) - Len(needle)) :
        \A j \in 1..Len(needle) : hay[i + j] = needle[j]

(* str(x).upper() on the status texts the model uses *)
Upper(s) ==
    CASE s = "active" -> "ACTIVE"
      [] s = "suspended" -> "SUSPENDED"
      [] s = "Deprovisioned" -> "DEPROVISIONED"
      [] s = "staged" -> "STAGED"
      [] s = "locked_out" -> "LOCKED_OUT"
      [] s = "UNKNOWN" -> "UNKNOWN"
      [] s = "None" -> "NONE"
      [] s = "7" -> "7"

(* ---------------- raw records ------------------------------------------- *)
(* A JSON value of the keys activated / suspended / status: <<tag, text>>   *)
JAbsent == <<"absent", "">>
JTrue == <<"bool", "true">>
JFalse == <<"bool", "false">>
JNull == <<"null", "">>
JStr(s) == <<"str", s>>
JNum(s) == <<"num", s>>
IsBool(v) == v[1] = "bool"
PyStr(v) == IF v[1] = "null" THEN "None" ELSE v[2]

(* dict.get(key, default) *)
Get(v, default) == IF v = JAbsent THEN default ELSE v

(* lastLogin: key absent, null, "", a non-ISO string, an ISO timestamp of   *)
(* calendar day `day` (00:00), or a number.                                 *)
LLAbsent == [k |-> "absent", day |-> 0]
LLNull == [k |-> "null", day |-> 0]
LLEmpty == [k |-> "empty", day |-> 0]
LLBad == [k |-> "bad", day |-> 0]
LLNum == [k |-> "num", day |-> 0]
LLIso(d) == [k |-> "iso", day |-> d]
LLNone == [k |-> "none", day |-> 0]

(* groups: the key absent / not a list, or a list of items; an item is a    *)
(* string, a dict with a string name, or a dict without a name.             *)
NoGroups == [isList |-> FALSE, items |-> <<>>]
GroupList(items) == [isList |-> TRUE, items |-> items]
GStr(n) == [k |-> "str", name |-> n]
GDict(n) == [k |-> "dict", name |-> n]
GDictNoName == [k |-> "dictNoName", name |-> ""]
NotAString == "<dict>"

Raw(id, activated, suspended, status, lastLogin, groups) ==
    [isDict |-> TRUE, id |-> id, activated |-> activated, suspended |-> suspended,
     status |-> status, lastLogin |-> lastLogin, groups |-> groups]
(* an element of the page that is not a JSON object (a string, a number)    *)
RawNonDict ==
    [isDict |-> FALSE, id |-> "", activated |-> JAbsent, suspended |-> JAbsent,
     status |-> JAbsent, lastLogin |-> LLAbsent, groups |-> NoGroups]

(* ---------------- risk scorer ------------------------------------------- *)
admin_keywords == <<"admin", "administrator", "root", "superuser", "privileged">>

IsAdminGroup(g, keywords) ==
    \E i \in DOMAIN keywords : Contains(Lower(Chars(g)), Chars(keywords[i]))

StatusRisk(status) ==
    IF status = "SUSPENDED" THEN 20
    ELSE IF status = "DEPROVISIONED" THEN 50
    ELSE 0

(* days_since_login = (datetime.now() - login_date).days, on calendar day d *)
LoginRisk_Inclusive(last_login, d) ==
    IF last_login.k = "none" THEN 25
    ELSE IF last_login.k = "iso"
    THEN LET days_since_login == d - last_login.day
         IN  IF days_since_login >= 90 THEN 30
             ELSE IF days_since_login >= 30 THEN 15
             ELSE IF days_since_login >= 7 THEN 5
             ELSE 0
    ELSE 10
LoginRisk(last_login, d) ==
    IF last_login.k = "none" THEN 25
    ELSE IF last_login.k = "iso"
    THEN LET days_since_login == d - last_login.day
         IN  IF days_since_login > 90 THEN 30
             ELSE IF days_since_login > 30 THEN 15
             ELSE IF days_since_login > 7 THEN 5
             ELSE 0
    ELSE 10

Min_NoCap(a, b) == a
Min(a, b) == IF a < b THEN a ELSE b

\* raises AttributeError (g.lower()) when a group is not a string
RiskRaises(groups) == \E i \in DOMAIN groups : groups[i] = NotAString

_calculate_risk_score_Stateful(status, last_login, groups, d) ==
    LET admin_groups == SelectSeq(groups, LAMBDA g : IsAdminGroup(g, admin_keywords))
    IN  Min(StatusRisk(status) + LoginRisk(last_login, d) + Len(admin_groups) * 10
              + (IF sync_stats.api_calls > 1 THEN 10 ELSE 0), 100)
_calculate_risk_score(status, last_login, groups, d) ==
    LET admin_groups == SelectSeq(groups, LAMBDA g : IsAdminGroup(g, admin_keywords))
    IN  Min(StatusRisk(status) + LoginRisk(last_login, d) + Len(admin_groups) * 10, 100)

(* ---------------- record normalizer ------------------------------------- *)
NormStatus_SuspendedFirst(user_data) ==
    LET status_raw == Get(user_data.suspended,
                          Get(user_data.activated,
                              Get(user_data.status, JStr("UNKNOWN"))))
    IN  IF IsBool(status_raw)
        THEN (IF status_raw = JTrue THEN "ACTIVE" ELSE "SUSPENDED")
        ELSE Upper(PyStr(status_raw))
NormStatus(user_data) ==
    LET status_raw == Get(user_data.activated,
                          Get(user_data.suspended,
                              Get(user_data.status, JStr("UNKNOWN"))))
    IN  IF IsBool(status_raw)
        THEN (IF status_raw = JTrue THEN "ACTIVE" ELSE "SUSPENDED")
        ELSE Upper(PyStr(status_raw))

\* user_data.get('lastLogin') or user_data.get('lastSignIn'): falsy values give None
NormLastLogin(user_data) ==
    IF user_data.lastLogin.k \in {"absent", "null", "empty"} THEN LLNone
    ELSE user_data.lastLogin

GroupName(g) ==
    IF g.k = "dictNoName" THEN NotAString ELSE g.name

NormGroups(user_data) ==
    IF user_data.groups.isList
    THEN [i \in DOMAIN user_data.groups.items |-> GroupName(user_data.groups.items[i])]
    ELSE <<>>

NoUser ==
    [id |-> "", status |-> "", last_login |-> LLNone, groups |-> <<>>,
     attributes |-> RawNonDict, risk_score |-> 0]

(* [ok |-> FALSE] stands for the exception _parse_user_data re-raises       *)
_parse_user_data(user_data, d) ==
    IF ~user_data.isDict THEN [ok |-> FALSE, user |-> NoUser]
    ELSE LET status == NormStatus(user_data)
             last_login == NormLastLogin(user_data)
             groups == NormGroups(user_data)
         IN  IF RiskRaises(groups) THEN [ok |-> FALSE, user |-> NoUser]
             ELSE [ok |-> TRUE,
                   user |-> [id |-> user_data.id, status |-> status,
                             last_login |-> last_login, groups |-> groups,
                             attributes |-> user_data,
                             risk_score |-> _calculate_risk_score(status, last_login, groups, d)]]

(* ---------------- the environment's inputs ------------------------------ *)
\* Scenario A of the spec: activated, never logged in, no groups
RecActive == Raw("1", JTrue, JAbsent, JAbsent, LLAbsent, GroupList(<<>>))
\* a raw status string, a last login eight days before day 1, an admin group
RecDeprov == Raw("2", JAbsent, JAbsent, JStr("Deprovisioned"), LLIso(-7),
                 GroupList(<<GStr("Org-Admins")>>))
\* the records the pages of a run are made of
RunRecords == {RecActive, RecDeprov, RawNonDict}

PageRecs == UNION { [1..n -> RunRecords] : n \in 0..MaxRecords }

NoBody ==
    [shape |-> "none", records |-> <<>>, next_cursor |-> NoCursor, nextCursor |-> NoCursor]
\* the JSON bodies of a 200 response: {results, next_cursor}, {data,
\* next_cursor | nextCursor}, a bare array, an object with neither key
Bodies ==
    [shape : {"results", "data"}, records : PageRecs,
     next_cursor : Cursors, nextCursor : AltCursors]
    \cup [shape : {"array"}, records : PageRecs,
          next_cursor : {NoCursor}, nextCursor : {NoCursor}]
    \cup [shape : {"other"}, records : {<<>>},
          next_cursor : Cursors, nextCursor : {NoCursor}]

\* SpecNormalize explores the normalizer: the directory holds one account,
\* drawn from every combination of the fields the normalizer and the scorer
\* read, and the server sends it as the only record of a final page
ActivatedValues == {JAbsent, JTrue, JFalse}
SuspendedValues == {JAbsent, JTrue, JFalse}
StatusValues ==
    {JAbsent, JStr("suspended"), JStr("Deprovisioned"), JStr("locked_out"),
     JNull, JNum("7")}
LastLoginValues ==
    {LLAbsent, LLEmpty, LLBad, LLNum,
     LLIso(-100), LLIso(-90), LLIso(-30), LLIso(-7), LLIso(5)}
GroupsValues ==
    {NoGroups, GroupList(<<>>), GroupList(<<GStr("Org-Admins")>>),
     GroupList(<<GStr("staff"), GDict("Root")>>),
     GroupList(<<GStr("Org-Admins"), GStr("Root"), GStr("Org-Admins")>>),
     GroupList(<<GDictNoName>>)}
NormalizeInputs ==
    { Raw("1", a, su, st, ll, g) :
        a \in ActivatedValues, su \in SuspendedValues, st \in StatusValues,
        ll \in LastLoginValues, g \in GroupsValues }
DirectoryPage ==
    [shape |-> "results", records |-> directory,
     next_cursor |-> NoCursor, nextCursor |-> NoCursor]

\* SpecQueries explores the export and the query helpers: the pages hold an
\* account that never logged in, one that logged in ten days before day 0,
\* one whose last login is unparseable, and a record that is not an object
RecRecent == Raw("3", JFalse, JAbsent, JAbsent, LLIso(-10), GroupList(<<GStr("sudoers")>>))
RecStale ==
    Raw("4", JAbsent, JAbsent, JStr("Deprovisioned"), LLBad,
        GroupList(<<GStr("Org-Admins"), GStr("Root"), GStr("Org-Admins"), GStr("Root")>>))
QueryRecords == {RecActive, RecRecent, RecStale, RawNonDict}
QueryBodies ==
    [shape : {"results"},
     records : UNION { [1..n -> QueryRecords] : n \in 0..MaxRecords },
     next_cursor : {NoCursor, "c1"}, nextCursor : {NoCursor}]

FailureKinds == {"timeout", "connection_error", "http_error"}
Failure(kind) == [kind |-> kind, hdr |-> NoHeader, body |-> NoBody]
RateLimited(hdr) == [kind |-> "429", hdr |-> hdr, body |-> NoBody]
Ok(body) == [kind |-> "200", hdr |-> NoHeader, body |-> body]

\* Spec explores the pages: every body, and of the failures a timeout, which
\* is retried, and a 429 whose Retry-After is an HTTP-date, which raises at once
RunOutcomes ==
    { Ok(b) : b \in Bodies }
    \cup { Failure("timeout"), RateLimited([k |-> "date", v |-> 0]) }

QueryOutcomes ==
    { Ok(b) : b \in QueryBodies } \cup { RateLimited([k |-> "date", v |-> 0]) }

\* SpecTransport explores the attempts of a request: every failure, and of the
\* pages a final page of one record, an empty page that carries a cursor, and
\* a page that is followed by another
TransportBodies ==
    { [shape |-> "results", records |-> <<RecActive>>,
       next_cursor |-> NoCursor, nextCursor |-> NoCursor],
      [shape |-> "data", records |-> <<>>,
       next_cursor |-> "c1", nextCursor |-> NoCursor],
      [shape |-> "data", records |-> <<RawNonDict>>,
       next_cursor |-> "", nextCursor |-> "c2"] }
TransportOutcomes ==
    { Ok(b) : b \in TransportBodies }
    \cup { RateLimited(h) : h \in RetryAfterHeaders }
    \cup { Failure(k) : k \in FailureKinds }

(* ---------------- connection test: test_data_format --------------------- *)
\* a key of the sample record is absent, null, or holds a value
KeyStates == {"absent", "null", "value"}
IdKeys == <<"_id", "id", "userId">>
EmailKeys == <<"email", "primaryEmail">>
FirstNameKeys == <<"firstname", "firstName", "given_name", "givenName">>
LastNameKeys == <<"lastname", "lastName", "family_name", "familyName">>
StatusKeys == <<"activated", "suspended", "status", "accountEnabled">>
Range(seq) == { seq[i] : i \in DOMAIN seq }
RequiredKeys ==
    Range(IdKeys) \cup Range(EmailKeys) \cup Range(FirstNameKeys)
        \cup Range(LastNameKeys) \cup Range(StatusKeys)

\* the samples: every state of the id and email keys, and of the first and
\* the last key of the name and status fields
VariedKeys ==
    Range(IdKeys) \cup Range(EmailKeys)
        \cup {"firstname", "givenName", "lastname", "familyName", "activated", "accountEnabled"}
Samples ==
    { [present |-> TRUE,
       fields |-> [k \in RequiredKeys |-> IF k \in VariedKeys THEN f[k] ELSE "absent"]] :
        f \in { g \in [VariedKeys -> KeyStates] :
                   \A k \in {"givenName", "familyName", "accountEnabled"} : g[k] /= "null" } }
\* no endpoint returned a sample user
NoSample == [present |-> FALSE, fields |-> [k \in RequiredKeys |-> "absent"]]

\* lines 409-413: the value of the first possible key the sample has
RECURSIVE FoundValue(_, _)
FoundValue(fields, possible_keys) ==
    IF possible_keys = <<>> THEN "absent"
    ELSE IF fields[Head(possible_keys)] /= "absent" THEN fields[Head(possible_keys)]
    ELSE FoundValue(fields, Tail(possible_keys))
\* 'found': found_value is not None
Found(fields, possible_keys) == FoundValue(fields, possible_keys) = "value"

NewResults ==
    [done |-> FALSE, passed |-> FALSE, error |-> "none",
     required_fields |-> [id |-> FALSE, email |-> FALSE, first_name |-> FALSE,
                          last_name |-> FALSE, status |-> FALSE]]

\* line 461: results['passed'] = required_found >= 3
Passed(required_fields) ==
    Cardinality({ n \in DOMAIN required_fields : required_fields[n] }) >= 3

test_data_format(sample) ==
    IF ~sample.present
    THEN [NewResults EXCEPT !.done = TRUE, !.error = "No sample user data available"]
    ELSE LET required_fields ==
                 [id |-> Found(sample.fields, IdKeys),
                  email |-> Found(sample.fields, EmailKeys),
                  first_name |-> Found(sample.fields, FirstNameKeys),
                  last_name |-> Found(sample.fields, LastNameKeys),
                  status |-> Found(sample.fields, StatusKeys)]
         IN  [NewResults EXCEPT !.done = TRUE, !.required_fields = required_fields,
                                !.passed = Passed(required_fields)]

(* ---------------- configuration: IGAConfig.__init__ --------------------- *)
Unset == "<unset>"
DefaultUrl == "https://console.jumpcloud.com/api"
\* os.getenv(name, default)
Getenv(value, default) == IF value = Unset THEN default ELSE value

Environs ==
    [IGA_API_URL : {Unset, "", "https://iga.example/api"},
     IGA_API_KEY : {Unset, "", "key-1"}]
SetEnviron == [IGA_API_URL |-> "https://iga.example/api", IGA_API_KEY |-> "key-1"]

NoConfig == [BASE_URL |-> "", API_KEY |-> ""]
\* [ok |-> FALSE] stands for the ValueError of lines 94-97
IGAConfig(env) ==
    LET BASE_URL == Getenv(env.IGA_API_URL, DefaultUrl)
        API_KEY == Getenv(env.IGA_API_KEY, "")
    IN  IF API_KEY = "" THEN [ok |-> FALSE, config |-> NoConfig]
        ELSE IF BASE_URL = "" THEN [ok |-> FALSE, config |-> NoConfig]
        ELSE [ok |-> TRUE, config |-> [BASE_URL |-> BASE_URL, API_KEY |-> API_KEY]]

NoSession == [created |-> FALSE, bearer |-> ""]
\* the Authorization header is 'Bearer ' + API_KEY
_create_session(cfg) == [created |-> TRUE, bearer |-> cfg.API_KEY]

(* ---------------- initial state: IGAUserRetriever.__init__ -------------- *)
NoCall ==
    [outcomes |-> <<>>, sleeps |-> <<>>,
     stats0 |-> [api_calls |-> 0, errors |-> 0, rate_limited |-> 0],
     status |-> "none", exc |-> "none"]

\* self.sync_stats as __init__ creates it
NewStats ==
    [start_time |-> NoTime, end_time |-> NoTime, total_users |-> 0,
     active_users |-> 0, suspended_users |-> 0,
     api_calls |-> 0, errors |-> 0, rate_limited |-> 0]

NoReturn == [op |-> "none", arg |-> 0, at |-> 0, value |-> <<>>]

\* everything but the configuration, the session and the server's directory
InitRetriever ==
    /\ sync_stats = NewStats
    /\ users = <<>>
    /\ normalized_on = <<>>
    /\ returned = NoReturn
    /\ results = NewResults
    /\ next_cursor = NoCursor
    /\ page_count = 0
    /\ params = [limit |-> PAGE_SIZE, cursor |-> NoCursor]
    /\ attempt = 0
    /\ response_data = NoBody
    /\ pending = "none"
    /\ result = "none"
    /\ now = 0
    /\ today = 0
    /\ runs = 0
    /\ gets = 0
    /\ received = 0
    /\ pages = 0
    /\ call = NoCall
    /\ served = <<>>

\* a retriever constructed in an environment that sets both variables
Init ==
    /\ pc = "idle"
    /\ environ = SetEnviron
    /\ config = IGAConfig(SetEnviron).config
    /\ session = _create_session(IGAConfig(SetEnviron).config)
    /\ directory = <<>>
    /\ sample_user = NoSample
    /\ InitRetriever

\* before IGAUserRetriever() is called, in any environment
InitConfig ==
    /\ pc = "new"
    /\ environ \in Environs
    /\ config = NoConfig
    /\ session = NoSession
    /\ directory = <<>>
    /\ sample_user = NoSample
    /\ InitRetriever

\* IGAUserRetriever(): self.config = IGAConfig(), then the session, the user
\* list and the statistics; the ValueError of IGAConfig leaves no instance
Construct ==
    /\ pc = "new"
    /\ LET c == IGAConfig(environ)
       IN  IF c.ok
           THEN /\ config' = c.config
                /\ session' = _create_session(c.config)
                /\ pc' = "idle"
                /\ result' = "none"
           ELSE /\ pc' = "failed"
                /\ result' = "ValueError"
                /\ UNCHANGED <<config, session>>
    /\ users' = <<>>
    /\ sync_stats' = NewStats
    /\ UNCHANGED <<next_cursor, page_count, params, attempt, response_data, pending,
                   now, today, runs, gets, received, pages, call, served, environ,
                   directory, returned, normalized_on, sample_user, results>>

(* ---------------- the wall clock ---------------------------------------- *)
\* The program reads the time at the start of a run and when it finalizes,
\* and only the difference of the two is observed: time that passes without
\* a sleep is let pass just before the run is finalized, and only when no
\* time has passed in the run yet.  A run does not span midnight: the date
\* changes while the retriever is idle.
TimeReadPoints == {"finalize"}
DateReadPoints == {"idle"}

Tick ==
    /\ pc \in TimeReadPoints
    /\ now = sync_stats.start_time
    /\ now' = now + 1
    /\ UNCHANGED <<pc, sync_stats, users, next_cursor, page_count, params, attempt,
                   response_data, pending, result, today, runs, gets, received, pages, call, served>>
    /\ UNCHANGED <<sample_user, results, environ, config, session, directory, returned, normalized_on>>

NewDay ==
    /\ pc \in DateReadPoints
    /\ today < MaxDay
    /\ today' = today + 1
    /\ now' = now + 1
    /\ UNCHANGED <<pc, sync_stats, users, next_cursor, page_count, params, attempt,
                   response_data, pending, result, runs, gets, received, pages, call, served>>
    /\ UNCHANGED <<sample_user, results, environ, config, session, directory, returned, normalized_on>>

\* time.sleep(ms): a positive sleep moves the clock forward
AfterSleep(t, ms) == IF ms > 0 THEN t + 1 ELSE t

(* ---------------- retrieve_all_users: entry ------------------------------ *)
Start ==
    /\ pc = "idle"
    /\ runs < MaxRuns
    /\ runs' = runs + 1
    /\ sync_stats' = [sync_stats EXCEPT !.start_time = now]
    /\ next_cursor' = NoCursor
    /\ page_count' = 0
    /\ result' = "none"
    /\ pc' = "loop"
    /\ returned' = NoReturn
    /\ UNCHANGED <<users, params, attempt, response_data, pending, now, today, gets,
                   received, pages, call, served>>
    /\ UNCHANGED <<sample_user, results, environ, config, session, directory, normalized_on>>

(* ---------------- retrieve_all_users: top of the while loop -------------- *)
PageParams_NoCursor(cursor) == [limit |-> PAGE_SIZE, cursor |-> NoCursor]
PageParams(cursor) ==
    [limit |-> PAGE_SIZE, cursor |-> IF Truthy(cursor) THEN cursor ELSE NoCursor]

FetchPage ==
    /\ pc = "loop"
    /\ page_count' = page_count + 1
    /\ params' = PageParams(next_cursor)
    /\ attempt' = 0
    /\ call' = [NoCall EXCEPT !.status = "running",
                              !.stats0 = [api_calls |-> sync_stats.api_calls,
                                          errors |-> sync_stats.errors,
                                          rate_limited |-> sync_stats.rate_limited]]
    /\ pc' = "request"
    /\ UNCHANGED <<sync_stats, users, next_cursor, response_data, pending, result,
                   now, today, runs, gets, received, pages, served>>
    /\ UNCHANGED <<sample_user, results, environ, config, session, directory, returned, normalized_on>>

(* ---------------- _make_request: one iteration of the for loop ----------- *)
\* int(response.headers.get('Retry-After', self.config.RETRY_DELAY))
RetryAfter_IgnoresHeader(hdr) == RETRY_DELAY
RetryAfter(hdr) == IF hdr.k = "absent" THEN RETRY_DELAY ELSE hdr.v
\* int() of a non-integer header and time.sleep() of a negative number raise ValueError
RetryAfterRaises(hdr) == hdr.k = "date" \/ RetryAfter(hdr) < 0

\* time.sleep(self.config.RETRY_DELAY * (attempt + 1))
BackoffDelay_Constant(a) == RETRY_DELAY
BackoffDelay(a) == RETRY_DELAY * (a + 1)

\* if attempt == self.config.MAX_RETRIES - 1
IsLastAttempt(a) == a = MAX_RETRIES - 1

\* the exception session.get / raise_for_status raises for a failed attempt
ExcOf(kind) ==
    CASE kind = "timeout" -> "Timeout"
      [] kind = "connection_error" -> "ConnectionError"
      [] kind = "http_error" -> "HTTPError"

\* the failures the two except clauses of _make_request catch: Timeout, and
\* RequestException with its subclasses ConnectionError and HTTPError
Caught_NoHTTPError(kind) == kind \in {"timeout", "connection_error"}
Caught(kind) == kind \in {"timeout", "connection_error", "http_error"}

\* what the for loop's `continue` after a 429 does to the attempt number
AttemptAfter429_SameAttempt(a) == a
AttemptAfter429(a) == a + 1

\* self.sync_stats['api_calls'] += 1 precedes session.get: every attempt counts
ApiCallIncrement_OnResponse(kind) ==
    IF kind \in {"timeout", "connection_error"} THEN 0 ELSE 1
ApiCallIncrement(kind) == 1

\* the exception leaves _make_request and the try block of retrieve_all_users
Raises(st, hist, sl, exc, t) ==
    /\ sync_stats' = st
    /\ call' = [call EXCEPT !.outcomes = hist, !.sleeps = sl,
                            !.status = "raised", !.exc = exc]
    /\ pending' = exc
    /\ pc' = "finalize"
    /\ now' = t
    /\ UNCHANGED <<attempt, response_data>>

\* next iteration of the for loop; when the range is used up, line 198 raises
Continues(st, hist, sl, a, t) ==
    IF a < MAX_RETRIES
    THEN /\ sync_stats' = st
         /\ call' = [call EXCEPT !.outcomes = hist, !.sleeps = sl]
         /\ attempt' = a
         /\ now' = t
         /\ UNCHANGED <<pc, pending, response_data>>
    ELSE Raises(st, hist, sl, "RequestException", t)

Returns(st, hist, sl, body, t) ==
    /\ sync_stats' = st
    /\ call' = [call EXCEPT !.outcomes = hist, !.sleeps = sl, !.status = "returned"]
    /\ response_data' = body
    /\ pc' = "process"
    /\ now' = t
    /\ UNCHANGED <<attempt, pending>>

Attempt(o) ==
    /\ pc = "request"
    /\ attempt < MAX_RETRIES
    /\ IF o.kind = "200" THEN pages < MaxPages ELSE gets - pages < MaxFailures
    /\ received + Len(o.body.records) <= MaxRecords
    /\ gets' = gets + 1
    /\ received' = received + Len(o.body.records)
    /\ pages' = IF o.kind = "200" THEN pages + 1 ELSE pages
    /\ LET st1 == [sync_stats EXCEPT !.api_calls = @ + ApiCallIncrement(o.kind)]
           hist == Append(call.outcomes, o)
       IN  IF o.kind = "429"
           THEN LET st2 == [st1 EXCEPT !.rate_limited = @ + 1]
                IN  IF RetryAfterRaises(o.hdr)
                    THEN Raises(st2, hist, call.sleeps, "ValueError", now)
                    ELSE Continues(st2, hist,
                                   Append(call.sleeps, Ms(RetryAfter(o.hdr))),
                                   AttemptAfter429(attempt),
                                   AfterSleep(now, Ms(RetryAfter(o.hdr))))
           ELSE IF o.kind = "200"
           THEN IF RATE_LIMIT_DELAY_MS > 0
                THEN Returns(st1, hist, Append(call.sleeps, RATE_LIMIT_DELAY_MS),
                             o.body, AfterSleep(now, RATE_LIMIT_DELAY_MS))
                ELSE Returns(st1, hist, call.sleeps, o.body, now)
           ELSE IF Caught(o.kind)
           THEN IF IsLastAttempt(attempt)
                THEN Raises([st1 EXCEPT !.errors = @ + 1], hist, call.sleeps,
                            ExcOf(o.kind), now)
                ELSE Continues(st1, hist,
                               Append(call.sleeps, Ms(BackoffDelay(attempt))),
                               attempt + 1,
                               AfterSleep(now, Ms(BackoffDelay(attempt))))
           ELSE Raises(st1, hist, call.sleeps, ExcOf(o.kind), now)
    /\ UNCHANGED <<users, next_cursor, page_count, params, result, today, runs, served>>
    /\ UNCHANGED <<sample_user, results, environ, config, session, directory, returned, normalized_on>>

(* ---------------- retrieve_all_users: one page ---------------------------- *)
\* lines 343-351: the records and the cursor of a response body
UsersData(body) ==
    IF body.shape \in {"results", "data", "array"} THEN body.records ELSE <<>>

ExtractCursor_AnyKey(body) ==
    IF body.shape \in {"results", "data"}
    THEN (IF Truthy(body.next_cursor) THEN body.next_cursor ELSE body.nextCursor)
    ELSE NoCursor
ExtractCursor(body) ==
    IF body.shape = "results" THEN body.next_cursor
    ELSE IF body.shape = "data"
    THEN (IF Truthy(body.next_cursor) THEN body.next_cursor ELSE body.nextCursor)
    ELSE NoCursor

\* lines 355-370: the loop over the records of the page
RECURSIVE ProcessRecords_AbortPage(_, _, _)
ProcessRecords_AbortPage(users_data, acc, d) ==
    IF users_data = <<>> THEN acc
    ELSE LET parsed == _parse_user_data(Head(users_data), d)
         IN  IF parsed.ok
             THEN ProcessRecords_AbortPage(Tail(users_data),
                    [acc EXCEPT !.users = Append(@, parsed.user),
                                !.active_users =
                                    IF parsed.user.status = "ACTIVE" THEN @ + 1 ELSE @,
                                !.suspended_users =
                                    IF parsed.user.status \in {"SUSPENDED", "DEPROVISIONED"}
                                    THEN @ + 1 ELSE @],
                    d)
             ELSE [acc EXCEPT !.errors = @ + 1]

RECURSIVE ProcessRecords_SilentSkip(_, _, _)
ProcessRecords_SilentSkip(users_data, acc, d) ==
    IF users_data = <<>> THEN acc
    ELSE LET parsed == _parse_user_data(Head(users_data), d)
             user == parsed.user
         IN  IF parsed.ok
             THEN ProcessRecords_SilentSkip(Tail(users_data),
                    [acc EXCEPT !.users = Append(@, user),
                                !.active_users =
                                    IF user.status = "ACTIVE" THEN @ + 1 ELSE @,
                                !.suspended_users =
                                    IF user.status \in {"SUSPENDED", "DEPROVISIONED"}
                                    THEN @ + 1 ELSE @],
                    d)
             ELSE ProcessRecords_SilentSkip(Tail(users_data), acc, d)

RECURSIVE ProcessRecords_SuspendedOnly(_, _, _)
ProcessRecords_SuspendedOnly(users_data, acc, d) ==
    IF users_data = <<>> THEN acc
    ELSE LET parsed == _parse_user_data(Head(users_data), d)
             user == parsed.user
         IN  IF parsed.ok
             THEN ProcessRecords_SuspendedOnly(Tail(users_data),
                    [acc EXCEPT !.users = Append(@, user),
                                !.active_users =
                                    IF user.status = "ACTIVE" THEN @ + 1 ELSE @,
                                !.suspended_users =
                                    IF user.status = "SUSPENDED" THEN @ + 1 ELSE @],
                    d)
             ELSE ProcessRecords_SuspendedOnly(Tail(users_data),
                                               [acc EXCEPT !.errors = @ + 1], d)

RECURSIVE ProcessRecords(_, _, _)
ProcessRecords(users_data, acc, d) ==
    IF users_data = <<>> THEN acc
    ELSE LET parsed == _parse_user_data(Head(users_data), d)
             user == parsed.user
         IN  IF parsed.ok
             THEN ProcessRecords(Tail(users_data),
                    [acc EXCEPT !.users = Append(@, user),
                                !.active_users =
                                    IF user.status = "ACTIVE" THEN @ + 1 ELSE @,
                                !.suspended_users =
                                    IF user.status \in {"SUSPENDED", "DEPROVISIONED"}
                                    THEN @ + 1 ELSE @],
                    d)
             ELSE ProcessRecords(Tail(users_data), [acc EXCEPT !.errors = @ + 1], d)

\* line 375: if not next_cursor or not users_data: break
MorePages_CursorOnly(cursor, users_data) == Truthy(cursor)
MorePages_Either(cursor, users_data) == Truthy(cursor) \/ users_data /= <<>>
MorePages(cursor, users_data) == Truthy(cursor) /\ users_data /= <<>>

ProcessPage ==
    /\ pc = "process"
    /\ LET users_data == UsersData(response_data)
           cursor == ExtractCursor(response_data)
           acc == ProcessRecords(users_data,
                      [users |-> users,
                       active_users |-> sync_stats.active_users,
                       suspended_users |-> sync_stats.suspended_users,
                       errors |-> sync_stats.errors],
                      today)
       IN  /\ users' = acc.users
           /\ normalized_on' = normalized_on
                                 \o [i \in 1..(Len(acc.users) - Len(users)) |-> today]
           /\ sync_stats' = [sync_stats EXCEPT !.active_users = acc.active_users,
                                               !.suspended_users = acc.suspended_users,
                                               !.errors = acc.errors]
           /\ next_cursor' = cursor
           /\ served' = Append(served, [nrecs |-> Len(users_data), cursor |-> cursor])
           /\ pc' = IF MorePages(cursor, users_data) THEN "loop" ELSE "finalize"
    /\ response_data' = NoBody
    /\ call' = NoCall
    /\ UNCHANGED <<page_count, params, attempt, pending, result, now, today, runs, gets,
                   received, pages>>
    /\ UNCHANGED <<sample_user, results, environ, config, session, directory, returned>>

(* ---------------- retrieve_all_users: the finally block ------------------ *)
\* _log_sync_summary divides total_users by the duration of the run
SummaryRaises(stats) == stats.end_time - stats.start_time = 0

\* lines 381-383, run whether or not an exception exc is propagating
FinalStats_OnSuccessOnly(stats, t, n, exc) ==
    IF exc = "none" THEN [stats EXCEPT !.end_time = t, !.total_users = n] ELSE stats
FinalStats(stats, t, n, exc) == [stats EXCEPT !.end_time = t, !.total_users = n]

Finalize ==
    /\ pc = "finalize"
    /\ LET st == FinalStats(sync_stats, now, Len(users), pending)
       IN  /\ sync_stats' = st
           /\ result' = IF SummaryRaises(st) THEN "ZeroDivisionError"
                        ELSE IF pending /= "none" THEN pending
                        ELSE "returned"
    /\ pending' = "none"
    /\ pc' = "idle"
    \* the locals of the call and the history of its last request are gone
    /\ next_cursor' = NoCursor
    /\ page_count' = 0
    /\ params' = PageParams(NoCursor)
    /\ attempt' = 0
    /\ call' = NoCall
    /\ served' = <<>>
    /\ UNCHANGED <<users, response_data, now, today, runs, gets, received, pages>>
    /\ UNCHANGED <<sample_user, results, environ, config, session, directory, returned, normalized_on>>

(* ---------------- export and query helpers ------------------------------- *)
\* datetime values, in half days: 00:00 of a day, or later that day
Timestamp(day, tod) == 2 * day + tod
TimeDelta(days) == 2 * days
TimesOfDay == {0, 1}
\* the arguments of the calls: days for get_inactive_users, risk_threshold
\* (the default) for get_high_risk_users
QueryDays == {10, 30}
QueryThresholds == {70}

\* get_high_risk_users: user.risk_score >= risk_threshold
RECURSIVE get_high_risk_users(_, _)
get_high_risk_users(us, risk_threshold) ==
    IF us = <<>> THEN <<>>
    ELSE (IF Head(us).risk_score >= risk_threshold THEN <<Head(us)>> ELSE <<>>)
         \o get_high_risk_users(Tail(us), risk_threshold)

\* get_inactive_users, lines 445-454, for one user
IsInactive_Inclusive(last_login, cutoff_date) ==
    IF last_login.k = "none" THEN TRUE
    ELSE IF last_login.k = "iso" THEN Timestamp(last_login.day, 0) <= cutoff_date
    ELSE TRUE
IsInactive(last_login, cutoff_date) ==
    IF last_login.k = "none" THEN TRUE
    ELSE IF last_login.k = "iso" THEN Timestamp(last_login.day, 0) < cutoff_date
    ELSE TRUE

RECURSIVE get_inactive_users(_, _)
get_inactive_users(us, cutoff_date) ==
    IF us = <<>> THEN <<>>
    ELSE (IF IsInactive(Head(us).last_login, cutoff_date) THEN <<Head(us)>> ELSE <<>>)
         \o get_inactive_users(Tail(us), cutoff_date)

\* get_privileged_users
privileged_keywords_NoSudo == <<"admin", "administrator", "root", "superuser", "privileged">>
privileged_keywords == <<"admin", "administrator", "root", "superuser", "privileged", "sudo">>
RECURSIVE get_privileged_users(_)
get_privileged_users(us) ==
    IF us = <<>> THEN <<>>
    ELSE (IF \E i \in DOMAIN Head(us).groups :
                IsAdminGroup(Head(us).groups[i], privileged_keywords)
          THEN <<Head(us)>> ELSE <<>>)
         \o get_privileged_users(Tail(us))

\* the helpers build a new list and leave self.users alone
UsersAfterQuery_Filtered(us, selected) == selected
UsersAfterQuery(us, selected) == us

Returns_(op, arg, at, value) ==
    /\ pc = "idle"
    /\ returned' = [op |-> op, arg |-> arg, at |-> at, value |-> value]
    /\ UNCHANGED <<pc, sync_stats, next_cursor, page_count, params, attempt,
                   response_data, pending, result, now, today, runs, gets, received,
                   pages, call, served, environ, config, session, directory,
                   normalized_on, sample_user, results>>

GetHighRiskUsers ==
    \E risk_threshold \in QueryThresholds :
        LET selected == get_high_risk_users(users, risk_threshold)
        IN  /\ Returns_("get_high_risk_users", risk_threshold, 0, selected)
            /\ users' = UsersAfterQuery(users, selected)

GetInactiveUsers ==
    \E days \in QueryDays, tod \in TimesOfDay :
        LET cutoff_date == Timestamp(today, tod) - TimeDelta(days)
            selected == get_inactive_users(users, cutoff_date)
        IN  /\ Returns_("get_inactive_users", days, Timestamp(today, tod), selected)
            /\ users' = UsersAfterQuery(users, selected)

GetPrivilegedUsers ==
    LET selected == get_privileged_users(users)
    IN  /\ Returns_("get_privileged_users", 0, 0, selected)
        /\ users' = UsersAfterQuery(users, selected)

\* export_users_json: the file holds the entities of self.users, in order
ExportUsersJson ==
    /\ Returns_("export_users_json", Len(users), 0, users)
    /\ UNCHANGED users

(* ---------------- specification ------------------------------------------ *)
Next ==
    \/ Start
    \/ FetchPage
    \/ \E o \in RunOutcomes : Attempt(o)
    \/ ProcessPage
    \/ Finalize
    \/ Tick

Spec == Init /\ [][Next]_vars

\* the same runs, with days passing between them
NextCalendar == Next \/ NewDay

SpecCalendar == Init /\ [][NextCalendar]_vars

NextTransport ==
    \/ Start
    \/ FetchPage
    \/ \E o \in TransportOutcomes : Attempt(o)
    \/ ProcessPage
    \/ Finalize
    \/ Tick

SpecTransport == Init /\ [][NextTransport]_vars

\* construction in any environment, then the requests of the instance
NextConfig ==
    \/ Construct
    \/ Start
    \/ FetchPage
    \/ \E o \in TransportOutcomes : Attempt(o)
    \/ ProcessPage
    \/ Finalize
    \/ Tick

SpecConfig == InitConfig /\ [][NextConfig]_vars

NextQueries ==
    \/ Start
    \/ FetchPage
    \/ \E o \in QueryOutcomes : Attempt(o)
    \/ ProcessPage
    \/ Finalize
    \/ Tick
    \/ GetHighRiskUsers
    \/ GetInactiveUsers
    \/ GetPrivilegedUsers
    \/ ExportUsersJson

SpecQueries == Init /\ [][NextQueries]_vars

\* the connection test, run on any sample
InitDataFormat ==
    /\ pc = "idle"
    /\ environ = SetEnviron
    /\ config = IGAConfig(SetEnviron).config
    /\ session = _create_session(IGAConfig(SetEnviron).config)
    /\ directory = <<>>
    /\ sample_user \in Samples \cup {NoSample}
    /\ InitRetriever

TestDataFormat ==
    /\ ~results.done
    /\ results' = test_data_format(sample_user)
    /\ UNCHANGED <<pc, sync_stats, users, next_cursor, page_count, params, attempt,
                   response_data, pending, result, now, today, runs, gets, received,
                   pages, call, served, environ, config, session, directory, returned,
                   normalized_on, sample_user>>

NextDataFormat == TestDataFormat

SpecDataFormat == InitDataFormat /\ [][NextDataFormat]_vars

\* a retriever whose server holds one account, over the days
InitNormalize ==
    /\ pc = "idle"
    /\ environ = SetEnviron
    /\ config = IGAConfig(SetEnviron).config
    /\ session = _create_session(IGAConfig(SetEnviron).config)
    /\ directory \in { <<r>> : r \in NormalizeInputs }
    /\ sample_user = NoSample
    /\ InitRetriever

ServeDirectory == Attempt(Ok(DirectoryPage))

NextNormalize ==
    \/ Start
    \/ FetchPage
    \/ ServeDirectory
    \/ ProcessPage
    \/ Finalize
    \/ NewDay

SpecNormalize == InitNormalize /\ [][NextNormalize]_vars

(* ======================================================================== *)
(* Properties of _make_request.  They are stated on the history `call` of   *)
(* the request in progress or just finished: the outcomes the server gave,  *)
(* the sleeps, and the counters at the start of the call.                   *)
(* ======================================================================== *)
Outcomes == call.outcomes
NumAttempts == Len(call.outcomes)
ApiCallsDelta == sync_stats.api_calls - call.stats0.api_calls
ErrorsDelta == sync_stats.errors - call.stats0.errors
RateLimitedDelta == sync_stats.rate_limited - call.stats0.rate_limited

\* a 429 whose Retry-After is absent or a non-negative integer number of seconds
UsableRetryAfter(hdr) == hdr.k = "absent" \/ (hdr.k = "int" /\ hdr.v >= 0)
IsRateLimited(o) == o.kind = "429" /\ UsableRetryAfter(o.hdr)
PauseOf(o) == IF o.hdr.k = "absent" THEN Ms(RETRY_DELAY) ELSE Ms(o.hdr.v)
\* the first n outcomes of the call are 429 responses
LeadingRateLimited(n) ==
    /\ n <= NumAttempts
    /\ \A i \in 1..n : IsRateLimited(Outcomes[i])

(* C1 as stated: a 429 does not consume a retry attempt, so a call that has *)
(* received only 429 responses, however many, is still retrying: it has not *)
(* raised, and can still return the body of a later 200.                    *)
C1_Original ==
    LeadingRateLimited(NumAttempts) => call.status /= "raised"

(* C1 amended: a 429 response (Retry-After absent or a non-negative integer) *)
(* consumes one of the MAX_RETRIES attempts.  After k < MAX_RETRIES          *)
(* consecutive 429 responses the call has slept after each and is on attempt *)
(* k; a 200 that follows is returned with its body, rate_limited increased   *)
(* by k and api_calls by k + 1.  After MAX_RETRIES consecutive 429 responses *)
(* the call raises RequestException with rate_limited increased by           *)
(* MAX_RETRIES.                                                              *)
C1_Amended ==
    /\ \A k \in 0..(MAX_RETRIES - 1) :
          (NumAttempts = k /\ LeadingRateLimited(k) /\ call.status /= "none")
              => /\ call.status = "running"
                 /\ attempt = k
                 /\ call.sleeps = [i \in 1..k |-> PauseOf(Outcomes[i])]
                 /\ RateLimitedDelta = k
    /\ \A k \in 0..(MAX_RETRIES - 1) :
          (NumAttempts = k + 1 /\ LeadingRateLimited(k) /\ Outcomes[k + 1].kind = "200")
              => /\ call.status = "returned"
                 /\ pc = "process"
                 /\ response_data = Outcomes[k + 1].body
                 /\ RateLimitedDelta = k
                 /\ ApiCallsDelta = k + 1
                 /\ Len(call.sleeps) = k + 1
                 /\ \A i \in 1..k : call.sleeps[i] = PauseOf(Outcomes[i])
    /\ (NumAttempts = MAX_RETRIES /\ LeadingRateLimited(MAX_RETRIES))
          => /\ call.status = "raised"
             /\ call.exc = "RequestException"
             /\ pending = "RequestException"
             /\ RateLimitedDelta = MAX_RETRIES
             /\ ApiCallsDelta = MAX_RETRIES

\* two 429 responses, then a 200 that is returned
C1_Witness ==
    /\ NumAttempts = 3
    /\ LeadingRateLimited(2)
    /\ Outcomes[3].kind = "200"
    /\ call.status = "returned"

(* C2 as stated: an HTTP error status other than 429 makes the call raise    *)
(* on that same attempt, with errors increased by exactly 1.                 *)
C2_Original ==
    (NumAttempts >= 1 /\ Outcomes[NumAttempts].kind = "http_error")
        => /\ call.status = "raised"
           /\ ErrorsDelta = 1

(* C2 amended: an HTTP error status other than 429 is handled like a         *)
(* connection error.  On attempt n < MAX_RETRIES the call sleeps             *)
(* RETRY_DELAY * n seconds and goes on to attempt n + 1 with errors          *)
(* unchanged; only on attempt MAX_RETRIES does it raise HTTPError, without   *)
(* sleeping, with errors increased by exactly 1.                             *)
C2_Amended ==
    (NumAttempts >= 1 /\ Outcomes[NumAttempts].kind = "http_error")
        => IF NumAttempts < MAX_RETRIES
           THEN /\ call.status = "running"
                /\ pc = "request"
                /\ attempt = NumAttempts
                /\ Len(call.sleeps) = NumAttempts
                /\ call.sleeps[NumAttempts] = Ms(RETRY_DELAY * NumAttempts)
                /\ ErrorsDelta = 0
           ELSE /\ call.status = "raised"
                /\ call.exc = "HTTPError"
                /\ pending = "HTTPError"
                /\ Len(call.sleeps) = NumAttempts - 1
                /\ ErrorsDelta = 1

\* an HTTP error on the first attempt, retried, then a 200 that is returned
C2_Witness ==
    /\ NumAttempts = 2
    /\ Outcomes[1].kind = "http_error"
    /\ Outcomes[2].kind = "200"
    /\ call.status = "returned"
    /\ ErrorsDelta = 0

(* C3: whenever a call ends by raising because its attempts are exhausted    *)
(* (Timeout, ConnectionError, HTTPError, or the RequestException after the   *)
(* loop), that call has incremented errors exactly once, whatever the        *)
(* outcomes of its attempts were, a final 429 included.                      *)
ExhaustedExceptions == {"Timeout", "ConnectionError", "HTTPError", "RequestException"}
C3_ErrorsCountedOnce ==
    (call.status = "raised" /\ NumAttempts = MAX_RETRIES
        /\ call.exc \in ExhaustedExceptions)
        => ErrorsDelta = 1

(* C4: when every attempt of a call fails with a timeout or a connection     *)
(* error, the call issues exactly MAX_RETRIES requests, sleeps               *)
(* RETRY_DELAY * n seconds after the n-th failure for n < MAX_RETRIES and    *)
(* not after the last, then propagates the failure with errors increased by  *)
(* 1 and api_calls by MAX_RETRIES.                                           *)
AllNetworkFailures ==
    /\ NumAttempts >= 1
    /\ \A i \in 1..NumAttempts : Outcomes[i].kind \in {"timeout", "connection_error"}
C4_NetworkFailures ==
    AllNetworkFailures
        => /\ NumAttempts <= MAX_RETRIES
           /\ ApiCallsDelta = NumAttempts
           /\ IF NumAttempts < MAX_RETRIES
              THEN /\ call.status = "running"
                   /\ call.sleeps = [n \in 1..NumAttempts |-> Ms(RETRY_DELAY * n)]
                   /\ ErrorsDelta = 0
              ELSE /\ call.status = "raised"
                   /\ call.exc = ExcOf(Outcomes[MAX_RETRIES].kind)
                   /\ pending = call.exc
                   /\ call.sleeps = [n \in 1..(MAX_RETRIES - 1) |-> Ms(RETRY_DELAY * n)]
                   /\ ErrorsDelta = 1

\* Scenario D: MAX_RETRIES timeouts / connection errors in a row
C4_Witness ==
    /\ AllNetworkFailures
    /\ NumAttempts = MAX_RETRIES
    /\ call.status = "raised"
    /\ Outcomes[1].kind = "timeout"
    /\ Outcomes[MAX_RETRIES].kind = "connection_error"

(* C5: in every reachable state api_calls equals the number of HTTP GETs the *)
(* instance has issued, whatever the outcome of each.                        *)
C5_ApiCallsCountGets == sync_stats.api_calls = gets

\* a 429, a timeout and an HTTP error have all been counted
C5_Witness ==
    /\ gets = 3
    /\ NumAttempts = 3
    /\ Outcomes[1].kind = "429"
    /\ Outcomes[2].kind = "timeout"
    /\ Outcomes[3].kind = "http_error"

(* C6: a call whose first attempt gets a 429 with Retry-After: s (s a        *)
(* non-negative integer) and whose next attempt gets a 200 returns the 200's *)
(* body; it sleeps s seconds (RETRY_DELAY when the header is absent) before  *)
(* the second request; rate_limited increases by 1, api_calls by 2, errors   *)
(* by 0.                                                                     *)
C6_RateLimitedThenOk ==
    (NumAttempts >= 1 /\ IsRateLimited(Outcomes[1]))
        => /\ Len(call.sleeps) >= 1
           /\ call.sleeps[1] = (IF Outcomes[1].hdr.k = "absent"
                                THEN 1000 * RETRY_DELAY
                                ELSE 1000 * Outcomes[1].hdr.v)
           /\ (NumAttempts >= 2 /\ Outcomes[2].kind = "200")
                 => /\ call.status = "returned"
                    /\ response_data = Outcomes[2].body
                    /\ call.sleeps = <<call.sleeps[1], RATE_LIMIT_DELAY_MS>>
                    /\ RateLimitedDelta = 1
                    /\ ApiCallsDelta = 2
                    /\ ErrorsDelta = 0

\* Scenario C: a 429 with Retry-After: 5, then a 200
C6_Witness ==
    /\ NumAttempts = 2
    /\ Outcomes[1].kind = "429"
    /\ Outcomes[1].hdr = [k |-> "int", v |-> 5]
    /\ Outcomes[2].kind = "200"
    /\ call.status = "returned"
    /\ call.sleeps[1] = 5000

(* ======================================================================== *)
(* Properties of retrieve_all_users.  `served` lists, for each page the     *)
(* run has processed, its number of raw records and the cursor extracted    *)
(* from it.                                                                 *)
(* ======================================================================== *)
\* the while loop has ended by `break`: every page was served without failure
LoopExited == pc = "finalize" /\ pending = "none"
InLoop == pc \in {"loop", "request", "process"}
\* a page with an empty/absent cursor or zero records
IsFinalPage(p) == ~Truthy(p.cursor) \/ p.nrecs = 0
NonEmptyPages == Cardinality({i \in DOMAIN served : served[i].nrecs > 0})

(* C7 as stated: when the pages end with a page that has an empty cursor or  *)
(* zero records, the run terminates after a number of page fetches equal to  *)
(* the number of non-empty pages.                                            *)
C7_Original == LoopExited => page_count = NonEmptyPages

(* C7 amended: the run leaves the loop at the first page that has an         *)
(* empty/absent cursor or zero records, and the number of page fetches       *)
(* equals the number of pages served up to and including that page: the      *)
(* number of non-empty pages, plus one when the final page has zero records. *)
C7_Amended ==
    /\ InLoop => \A i \in DOMAIN served : ~IsFinalPage(served[i])
    /\ pc = "loop" => page_count = Len(served)
    /\ pc \in {"request", "process"} => page_count = Len(served) + 1
    /\ LoopExited
          => /\ page_count = Len(served)
             /\ page_count >= 1
             /\ IsFinalPage(served[page_count])
             /\ \A i \in 1..(page_count - 1) : ~IsFinalPage(served[i])
             /\ page_count = NonEmptyPages
                               + (IF served[page_count].nrecs = 0 THEN 1 ELSE 0)

\* a non-empty page with a cursor, then an empty page that still has a cursor
C7_Witness ==
    /\ LoopExited
    /\ page_count = 2
    /\ served[1].nrecs > 0
    /\ served[2].nrecs = 0
    /\ Truthy(served[2].cursor)

(* C8: after processing a page the run requests another page if and only if  *)
(* that page carried a non-empty cursor and at least one raw record; a page  *)
(* with zero raw records ends the run even with a cursor, and a non-empty    *)
(* page whose records all failed to parse does not.                          *)
C8_NextPageIff ==
    [][(pc = "process" /\ pc' /= "process")
          => LET page == served'[Len(served')]
             IN  /\ pc' \in {"loop", "finalize"}
                 /\ page.nrecs = Len(response_data.records)
                 /\ (pc' = "loop") <=> (Truthy(page.cursor) /\ page.nrecs >= 1)
                 /\ (pc' = "loop") => next_cursor' = page.cursor]_vars

\* a page whose records all failed to parse has not ended the run
C8_Witness ==
    /\ pc = "loop"
    /\ runs = 1
    /\ Len(served) = 1
    /\ served[1].nrecs = 2
    /\ users = <<>>

(* C9: a raw record whose normalization raises never aborts the run: it is   *)
(* not added to the user list, errors increases by exactly 1 for it, every   *)
(* other record of the page is still processed in order, and pagination goes *)
(* on from the page's cursor.                                                *)
ParsesOk(user_data) == _parse_user_data(user_data, today).ok
C10_FinalizedOnExit ==
    (pc = "idle" /\ result /= "none")
        => /\ sync_stats.end_time /= NoTime
           /\ sync_stats.end_time >= sync_stats.start_time
           /\ sync_stats.total_users = Len(users)

\* a second run that ended with a propagated transport error
C10_Witness ==
    /\ pc = "idle"
    /\ runs = 2
    /\ result \in {"Timeout", "ConnectionError", "HTTPError", "RequestException"}
    /\ Len(users) >= 1

(* ======================================================================== *)
(* Properties of the retriever instance across runs.                        *)
(* ======================================================================== *)
\* the step that enters retrieve_all_users
StartsRun == pc = "idle" /\ pc' = "loop"

(* C11: the sync statistics are created at the start of retrieve_all_users:  *)
(* when a run starts, api_calls, errors, rate_limited, active_users and      *)
(* suspended_users are those of a fresh instance, so that after the run they *)
(* reflect only the events of that run, not the sum over the earlier runs.   *)
C11_StatsPerRun ==
    [][StartsRun
          => /\ sync_stats'.api_calls = 0
             /\ sync_stats'.errors = 0
             /\ sync_stats'.rate_limited = 0
             /\ sync_stats'.active_users = 0
             /\ sync_stats'.suspended_users = 0]_vars

(* ======================================================================== *)
(* Properties of the normalizer and of the risk scorer, on the entities of  *)
(* self.users: each keeps its raw record in `attributes`, and normalized_on *)
(* tells the day it was normalized.                                         *)
(* ======================================================================== *)
\* the step that processes a page, and the entities it appends
ProcessesPage == pc = "process" /\ pc' /= "process"
Appended == SubSeq(users', Len(users) + 1, Len(users'))

(* C13: every entity of the user list has a risk_score between 0 and 100,    *)
(* whatever its status, its last login (absent, unparseable, of any age,     *)
(* in the future) and the number of its admin groups.                        *)
C13_RiskScoreRange ==
    \A i \in DOMAIN users : users[i].risk_score \in 0..100

\* a deprovisioned account, last login 100 days ago, three admin groups:
\* 50 + 30 + 30 is capped
C13_Witness ==
    \E i \in DOMAIN users :
        /\ users[i].status = "DEPROVISIONED"
        /\ users[i].last_login = LLIso(-100)
        /\ Len(users[i].groups) = 3
        /\ users[i].risk_score = 100

(* C14: the risk score is min(100, S + L + 10*G): S is 20 for SUSPENDED, 50  *)
(* for DEPROVISIONED, 0 otherwise; L is 25 without a last login, 10 for an   *)
(* unparseable one, else 30 / 15 / 5 / 0 for more than 90 / more than 30 /   *)
(* more than 7 / at most 7 whole days since the login; G counts the group    *)
(* entries, duplicates included, whose lowercased name contains admin,       *)
(* administrator, root, superuser or privileged.  An ACTIVE record without   *)
(* last login and groups scores 25.                                          *)
ClaimedS(status) ==
    CASE status = "SUSPENDED" -> 20
      [] status = "DEPROVISIONED" -> 50
      [] OTHER -> 0
ClaimedL(last_login, day) ==
    CASE last_login.k = "none" -> 25
      [] last_login.k = "iso" /\ day - last_login.day > 90 -> 30
      [] last_login.k = "iso" /\ day - last_login.day \in 31..90 -> 15
      [] last_login.k = "iso" /\ day - last_login.day \in 8..30 -> 5
      [] last_login.k = "iso" /\ day - last_login.day <= 7 -> 0
      [] OTHER -> 10
ClaimedKeywords == {"admin", "administrator", "root", "superuser", "privileged"}
ClaimedG(groups) ==
    Cardinality({ i \in DOMAIN groups :
                    \E k \in ClaimedKeywords :
                        Contains(Lower(Chars(groups[i])), Chars(k)) })
ClaimedScore(e, day) ==
    LET sum == ClaimedS(e.status) + ClaimedL(e.last_login, day) + 10 * ClaimedG(e.groups)
    IN  IF sum > 100 THEN 100 ELSE sum
C14_RiskScoreFormula ==
    [][ProcessesPage
          => \A i \in DOMAIN Appended :
                /\ Appended[i].risk_score = ClaimedScore(Appended[i], today)
                /\ (Appended[i].status = "ACTIVE" /\ Appended[i].last_login = LLNone
                        /\ Appended[i].groups = <<>>)
                      => Appended[i].risk_score = 25]_vars

\* a suspended account, last login exactly 90 days ago, one admin group
C14_Witness ==
    \E i \in DOMAIN users :
        /\ users[i].status = "SUSPENDED"
        /\ users[i].last_login = LLIso(-90)
        /\ normalized_on[i] = 0
        /\ users[i].groups = <<"Org-Admins">>
        /\ users[i].risk_score = 45

(* C15: a raw record with suspended: true and no activated key is normalized *)
(* as a suspended account; with a last login 100 days ago and the groups     *)
(* ["Org-Admins"] its risk_score is 20 + 30 + 10 = 60.                       *)
C15_SuspendedFlag ==
    \A i \in DOMAIN users :
        LET a == users[i].attributes
        IN  (a.activated = JAbsent /\ a.suspended = JTrue)
                => /\ users[i].status = "SUSPENDED"
                   /\ (a.lastLogin = LLIso(-100) /\ normalized_on[i] = 0
                          /\ a.groups = GroupList(<<GStr("Org-Admins")>>))
                         => users[i].risk_score = 60

(* C16: for a raw record with a boolean activated field the status is ACTIVE *)
(* if and only if activated is true and SUSPENDED if and only if it is       *)
(* false, whatever the suspended and status fields hold.                     *)
C16_ActivatedDecides ==
    \A i \in DOMAIN users :
        LET a == users[i].attributes
        IN  IsBool(a.activated)
                => /\ (users[i].status = "ACTIVE") <=> (a.activated = JTrue)
                   /\ (users[i].status = "SUSPENDED") <=> (a.activated = JFalse)

\* activated: false wins over suspended: true and a status string
C16_Witness ==
    \E i \in DOMAIN users :
        /\ users[i].attributes.activated = JFalse
        /\ users[i].attributes.suspended = JTrue
        /\ users[i].attributes.status = JStr("Deprovisioned")
        /\ users[i].status = "SUSPENDED"

(* C17: the status of every entity is one of ACTIVE, SUSPENDED, PROVISIONED, *)
(* STAGED, DEPROVISIONED, EXIT, UNKNOWN; a raw value outside the recognized  *)
(* set (an unrecognized string, null, a number) gives UNKNOWN.               *)
RecognizedStatuses ==
    {"ACTIVE", "SUSPENDED", "PROVISIONED", "STAGED", "DEPROVISIONED", "EXIT", "UNKNOWN"}
C17_StatusRecognized ==
    \A i \in DOMAIN users : users[i].status \in RecognizedStatuses

(* C18 as stated: normalizing the same raw record twice, in one run or in    *)
(* two, yields entities equal in every field, risk_score included.           *)
C18_Original ==
    \A i, j \in DOMAIN users :
        users[i].attributes = users[j].attributes => users[i] = users[j]

(* C18 amended: normalization is a function of the raw record and of the     *)
(* current date, not of the retriever's state.  Two entities of the same raw *)
(* record are equal in every field when they were normalized on the same     *)
(* day, and in every field but risk_score otherwise; the step that           *)
(* normalizes a page changes nothing of the retriever but the user list and  *)
(* the counters active_users, suspended_users and errors.                    *)
SameButScore(e, f) == [e EXCEPT !.risk_score = 0] = [f EXCEPT !.risk_score = 0]
C18_Amended ==
    [][ProcessesPage
          => /\ \A i, j \in DOMAIN users' :
                   users'[i].attributes = users'[j].attributes
                      => /\ SameButScore(users'[i], users'[j])
                         /\ normalized_on'[i] = normalized_on'[j]
                               => users'[i] = users'[j]
             /\ \A i \in DOMAIN Appended :
                   Appended[i] = _parse_user_data(Appended[i].attributes, today).user
             /\ SubSeq(users', 1, Len(users)) = users
             /\ [sync_stats' EXCEPT !.active_users = 0, !.suspended_users = 0, !.errors = 0]
                  = [sync_stats EXCEPT !.active_users = 0, !.suspended_users = 0, !.errors = 0]
             /\ config' = config /\ session' = session]_vars

\* the same record normalized in two runs on the same day, its last login
\* being a date
C18_Witness ==
    /\ Len(users) = 2
    /\ runs = 2
    /\ users[1].attributes = users[2].attributes
    /\ users[1].last_login = LLIso(-7)
    /\ normalized_on[1] = normalized_on[2]
    /\ users[1] = users[2]

(* ======================================================================== *)
(* Properties of the user list, of the export and of the query helpers.     *)
(* ======================================================================== *)
(* C12: no operation of a retriever clears or shortens its user list: over   *)
(* any sequence of retrieve_all_users, export and query-helper calls every   *)
(* step keeps the entities already in the list, in place, so that a second   *)
(* run appends its entities after those of the first.                        *)
C12_UsersNeverShrink ==
    [][/\ Len(users') >= Len(users)
       /\ SubSeq(users', 1, Len(users)) = users]_vars

\* the second run has appended an entity after the one the first run left
C12_Witness ==
    /\ runs = 2
    /\ pc = "finalize"
    /\ sync_stats.total_users = 1
    /\ Len(users) = 2

(* C20: get_inactive_users(days) returns, in list order, exactly the         *)
(* entities whose last_login is absent, unparseable, or strictly older than  *)
(* now - days; with days = 30 a user who logged in 10 days ago is excluded   *)
(* and a user without last_login is included.                                *)
ClaimedInactive(u, at, days) ==
    \/ u.last_login.k = "none"
    \/ u.last_login.k \in {"bad", "num"}
    \/ u.last_login.k = "iso" /\ Timestamp(u.last_login.day, 0) < at - TimeDelta(days)
InactiveAsClaimed(u) == ClaimedInactive(u, returned.at, returned.arg)
C20_InactiveUsers ==
    returned.op = "get_inactive_users"
        => /\ returned.value = SelectSeq(users, InactiveAsClaimed)
           /\ returned.arg = 30
                 => \A i \in DOMAIN users :
                       /\ (users[i].last_login = LLIso(-10) /\ today = 0)
                             => \A j \in DOMAIN returned.value : returned.value[j] /= users[i]
                       /\ users[i].last_login = LLNone
                             => \E j \in DOMAIN returned.value : returned.value[j] = users[i]

\* Scenario E: one user who logged in 10 days ago, one who never did, days = 30
C20_Witness ==
    /\ returned.op = "get_inactive_users"
    /\ returned.arg = 30
    /\ Len(users) = 2
    /\ users[1].last_login = LLIso(-10)
    /\ users[2].last_login = LLNone
    /\ returned.value = <<users[2]>>

(* ======================================================================== *)
(* Properties of the configuration.                                         *)
(* ======================================================================== *)
(* C19: whenever IGA_API_KEY or IGA_API_URL is unset or empty, construction  *)
(* fails with a configuration error before any session is created or any    *)
(* HTTP request is issued.                                                   *)
Missing(value) == value = Unset \/ value = ""
C19_RequiredVariables ==
    (pc /= "new" /\ (Missing(environ.IGA_API_KEY) \/ Missing(environ.IGA_API_URL)))
        => /\ pc = "failed"
           /\ result = "ValueError"
           /\ ~session.created
           /\ gets = 0

(* C21: get_privileged_users returns each entity of the list at most once,   *)
(* exactly when one of its groups contains, lowercased, admin,               *)
(* administrator, root, superuser, privileged or sudo.  Every entity whose   *)
(* risk score received a group-based +10 is returned, and an entity returned *)
(* without a group-based contribution matches through sudo only.             *)
ClaimedPrivilegedKeywords == ClaimedKeywords \cup {"sudo"}
GroupHas(g, k) == Contains(Lower(Chars(g)), Chars(k))
ClaimedPrivileged(u) ==
    \E i \in DOMAIN u.groups : \E k \in ClaimedPrivilegedKeywords : GroupHas(u.groups[i], k)
C21_PrivilegedUsers ==
    returned.op = "get_privileged_users"
        => /\ returned.value = SelectSeq(users, ClaimedPrivileged)
           /\ \A i \in DOMAIN users :
                 ClaimedG(users[i].groups) > 0
                    => \E j \in DOMAIN returned.value : returned.value[j] = users[i]
           /\ \A j \in DOMAIN returned.value :
                 ClaimedG(returned.value[j].groups) = 0
                    => /\ \E i \in DOMAIN returned.value[j].groups :
                             GroupHas(returned.value[j].groups[i], "sudo")
                       /\ \A i \in DOMAIN returned.value[j].groups :
                             \A k \in ClaimedKeywords :
                                 ~GroupHas(returned.value[j].groups[i], k)

\* an account of the group sudoers is returned, one without groups is not
C21_Witness ==
    /\ returned.op = "get_privileged_users"
    /\ Len(users) = 2
    /\ users[1].groups = <<>>
    /\ users[2].groups = <<"sudoers">>
    /\ returned.value = <<users[2]>>

(* ======================================================================== *)
(* Properties of the pagination of retrieve_all_users.                      *)
(* ======================================================================== *)
(* C22: for each page response the records are those of 'results' when the   *)
(* key is present, with the cursor of next_cursor only; else those of        *)
(* 'data', with the cursor of next_cursor or else nextCursor; else the body  *)
(* itself when it is a bare array.  A bare array, and an object with neither *)
(* key, which yields no record, never leads to a further page request.       *)
ClaimedCursor(body) ==
    CASE body.shape = "results" -> body.next_cursor
      [] body.shape = "data" /\ Truthy(body.next_cursor) -> body.next_cursor
      [] body.shape = "data" /\ ~Truthy(body.next_cursor) -> body.nextCursor
      [] OTHER -> NoCursor
C22_ResponseShapes ==
    [][ProcessesPage
          => LET body == response_data
                 page == served'[Len(served')]
                 handled == (Len(users') - Len(users))
                              + (sync_stats'.errors - sync_stats.errors)
             IN  /\ Len(served') = Len(served) + 1
                 /\ body.shape \in {"results", "data", "array"}
                       => /\ page.nrecs = Len(body.records)
                          /\ handled = Len(body.records)
                 /\ body.shape = "other" => (page.nrecs = 0 /\ handled = 0)
                 /\ page.cursor = ClaimedCursor(body)
                 /\ next_cursor' = ClaimedCursor(body)
                 /\ body.shape \in {"array", "other"} => pc' = "finalize"]_vars

\* the second page is requested with the cursor a 'data' page gave as nextCursor
C22_Witness ==
    /\ pc = "request"
    /\ page_count = 2
    /\ params.cursor = "c2"
    /\ served[1].cursor = "c2"

(* C24: the first page request of a run carries no cursor, the request for   *)
(* page n+1 carries exactly the cursor extracted from the response to page   *)
(* n, and every page request carries limit = PAGE_SIZE.                      *)
C24_CursorChain ==
    pc = "request"
        => /\ params.limit = PAGE_SIZE
           /\ page_count = Len(served) + 1
           /\ page_count = 1 => params.cursor = NoCursor
           /\ page_count > 1 => /\ params.cursor = served[page_count - 1].cursor
                                /\ Truthy(params.cursor)

\* the third page is requested with the cursor of the second, not of the first
C24_Witness ==
    /\ pc = "request"
    /\ page_count = 3
    /\ served[1].cursor = "c1"
    /\ served[2].cursor = "c2"
    /\ params.cursor = "c2"

(* ======================================================================== *)
(* Properties of failing and rate-limited requests.                         *)
(* ======================================================================== *)
\* the request for the page in progress has used up its attempts and raised
RetriesExhausted ==
    /\ call.status = "raised"
    /\ NumAttempts = MAX_RETRIES
    /\ call.exc \in ExhaustedExceptions

(* C23: if the transport call for page k raises after its retries are        *)
(* exhausted, the run propagates that error and requests no page after k;    *)
(* the entities of pages 1..k-1 stay in the user list, and errors has        *)
(* increased by exactly 1 for the transport failure.                         *)
C23_TransportFailureAtPage ==
    RetriesExhausted
        => /\ pc = "finalize"
           /\ pending = call.exc
           /\ page_count = Len(served) + 1
           /\ ErrorsDelta = 1

(* C25: a 429 response never makes the call fail while attempts remain:      *)
(* whatever the Retry-After header holds (absent, integer seconds, a         *)
(* non-integer value such as an HTTP-date), the call pauses and proceeds to  *)
(* the next attempt.                                                         *)
C25_RateLimitNeverFails ==
    (NumAttempts >= 1 /\ NumAttempts < MAX_RETRIES
        /\ Outcomes[NumAttempts].kind = "429")
        => /\ call.status = "running"
           /\ attempt = NumAttempts
           /\ Len(call.sleeps) = NumAttempts

(* C26: every call issues at most MAX_RETRIES GETs and then returns or       *)
(* raises, whatever the server answers; after an unbroken run of MAX_RETRIES *)
(* 429 responses it raises RequestException instead of retrying further.     *)
C26_BoundedAttempts ==
    /\ NumAttempts <= MAX_RETRIES
    /\ call.status /= "none" => ApiCallsDelta = NumAttempts
    /\ call.status = "running" => (pc = "request" /\ attempt = NumAttempts)
    /\ NumAttempts = MAX_RETRIES => call.status \in {"returned", "raised"}
    /\ (NumAttempts = MAX_RETRIES /\ \A i \in 1..MAX_RETRIES : Outcomes[i].kind = "429")
          => (call.status = "raised" /\ call.exc \in {"RequestException", "ValueError"})
    /\ (NumAttempts = MAX_RETRIES /\ LeadingRateLimited(MAX_RETRIES))
          => (call.status = "raised" /\ call.exc = "RequestException")

\* an unbroken run of MAX_RETRIES 429 responses has ended the call
C26_Witness ==
    /\ NumAttempts = MAX_RETRIES
    /\ \A i \in 1..MAX_RETRIES : Outcomes[i].kind = "429"
    /\ call.status = "raised"
    /\ call.exc = "RequestException"
    /\ gets = MAX_RETRIES

(* ======================================================================== *)
(* Properties of the counters of a run.                                     *)
(* ======================================================================== *)
(* C27: in a run on a fresh retriever that meets no transport failure, every *)
(* raw record of every fetched page gives either one entity of the user list *)
(* or one increment of errors: after each page len(users) + errors is the    *)
(* number of raw records received, and the entities are in page order and    *)
(* in-page order.                                                            *)
AttributesOf(us) == [i \in DOMAIN us |-> us[i].attributes]
C27_RecordConservation ==
    [][(ProcessesPage /\ runs = 1)
          => LET recs == UsersData(response_data)
             IN  /\ AttributesOf(Appended) = SelectSeq(recs, ParsesOk)
                 /\ SubSeq(users', 1, Len(users)) = users
                 /\ Len(users') + sync_stats'.errors = received]_vars

\* two pages of one record each: one record normalized, one counted in errors
C27_Witness ==
    /\ pc = "idle"
    /\ runs = 1
    /\ result = "returned"
    /\ pages = 2
    /\ received = 2
    /\ Len(users) = 1
    /\ sync_stats.errors = 1

(* C28: after a run, active_users is the number of entities of the user list *)
(* with status ACTIVE and suspended_users the number with status SUSPENDED   *)
(* or DEPROVISIONED, so active_users + suspended_users <= total_users;       *)
(* entities of any other status are counted in neither.                      *)
CountStatus(statuses) == Cardinality({ i \in DOMAIN users : users[i].status \in statuses })
C28_StatusCounters ==
    (pc = "idle" /\ result /= "none")
        => /\ sync_stats.active_users = CountStatus({"ACTIVE"})
           /\ sync_stats.suspended_users = CountStatus({"SUSPENDED", "DEPROVISIONED"})
           /\ sync_stats.active_users + sync_stats.suspended_users
                 <= sync_stats.total_users

\* a run that retrieved a deprovisioned account, then one that retrieved it
\* again: both entities are counted as suspended
C28_Witness ==
    /\ pc = "idle"
    /\ runs = 2
    /\ result = "returned"
    /\ Len(users) = 2
    /\ users[1].status = "DEPROVISIONED"
    /\ sync_stats.suspended_users = 2
    /\ sync_stats.active_users = 0

(* C29: the finalization step never raises on its own: for every run, one of *)
(* zero duration included, _log_sync_summary completes, so that the call     *)
(* returns the user list when fetching succeeded and otherwise surfaces the  *)
(* original error, not a different exception.                                *)
C29_FinalizationNeverRaises ==
    [][(pc = "finalize" /\ pc' = "idle")
          => result' = (IF pending = "none" THEN "returned" ELSE pending)]_vars

(* ======================================================================== *)
(* Properties of the connection test.                                       *)
(* ======================================================================== *)
(* C30: the data-format test reports the sample as compatible only if it    *)
(* provides at least an id, an email and a name field; it never passes for   *)
(* a sample that lacks every id key (_id, id, userId).                       *)
LacksEveryIdKey == \A i \in DOMAIN IdKeys : sample_user.fields[IdKeys[i]] = "absent"
C30_PassNeedsId ==
    results.done
        => /\ results.passed
                 => /\ results.required_fields.id
                    /\ results.required_fields.email
                    /\ results.required_fields.first_name
                          \/ results.required_fields.last_name
           /\ LacksEveryIdKey => ~results.passed

====
